---- MODULE Spec2Model ----
(***************************************************************************)
(* MovieAnalyzer: loading, joining, cleaning and aggregating the movie and *)
(* character tables.  The repository holds two implementations of the      *)
(* class: src/src/movie_analyzer.py (imported by tests/ and app/app.py;    *)
(* variant "src") and src/movie_analyzer.py (imported by the top-level     *)
(* app.py and Page3.py; variant "root").  Definitions of the first keep    *)
(* the source's names, those of the second carry the prefix root_.         *)
(*                                                                         *)
(* A table is a sequence of rows (records); a cell is a tagged record:     *)
(* a number, a text, the missing marker NaN, or Python's None.  Heights    *)
(* are held in centimetres so that they stay integers.                     *)
(***************************************************************************)
EXTENDS Integers, Sequences, FiniteSets, TLC

VARIABLES variant, movie_file, character_file, summary_file,
          pc, movies_df, characters_df, merged_df, call, result

vars == <<variant, movie_file, character_file, summary_file,
          pc, movies_df, characters_df, merged_df, call, result>>

tables == <<movies_df, characters_df, merged_df>>
files == <<variant, movie_file, character_file, summary_file>>

----------------------------------------------------------------------------
(* Bounds of the model *)

MaxMovies == 2
MaxTitles == 3
MaxCast == 5
MaxActors == 2
MaxBirths == 2
MaxRows == 1
MaxN == 3
MaxLoaded == 1

----------------------------------------------------------------------------
(* Cells *)

NaN == [t |-> "nan", n |-> 0, s |-> ""]
None == [t |-> "none", n |-> 0, s |-> ""]
Num(n) == [t |-> "num", n |-> n, s |-> ""]
Str(s) == [t |-> "str", n |-> 0, s |-> s]

isna(c) == c.t = "nan"
notna(c) == c.t # "nan"

\* The texts of the model that read as a number, with the number they read as.
NumericText ==
  [s \in {"1999", "2000", "1970", "1985", "1.8"} |->
     CASE s = "1999" -> 1999
       [] s = "2000" -> 2000
       [] s = "1970" -> 1970
       [] s = "1985" -> 1985
       [] s = "1.8" -> 180]

\* pd.to_numeric(column, errors="coerce"), cell by cell: a number stays, a text
\* that reads as a number becomes it, anything else becomes NaN.
to_numeric(c) ==
  CASE c.t = "num" -> c
    [] c.t = "str" -> IF c.s \in DOMAIN NumericText THEN Num(NumericText[c.s]) ELSE NaN
    [] OTHER -> NaN

\* The texts of the model that carry surrounding white space, stripped.
strip(s) == IF s = " Drama" THEN "Drama" ELSE s

----------------------------------------------------------------------------
(* Sequences *)

Range(q) == {q[i] : i \in DOMAIN q}

\* df[mask]: the rows of q whose place in the boolean mask holds TRUE, in order.
SelectRows(q, mask) ==
  LET F[i \in 0..Len(q)] ==
        IF i = 0 THEN <<>>
        ELSE IF mask[i] THEN Append(F[i - 1], q[i]) ELSE F[i - 1]
  IN F[Len(q)]

RECURSIVE Flatten(_)
Flatten(qq) == IF qq = <<>> THEN <<>> ELSE Head(qq) \o Flatten(Tail(qq))

RECURSIVE Sum(_)
Sum(q) == IF q = <<>> THEN 0 ELSE Head(q) + Sum(Tail(q))

Occurrences(q, x) == Cardinality({i \in DOMAIN q : q[i] = x})

\* The distinct elements of q in the order of their first occurrence.
RECURSIVE Unique(_)
Unique(q) ==
  IF q = <<>> THEN <<>>
  ELSE LET r == Unique(SubSeq(q, 1, Len(q) - 1))
           x == q[Len(q)]
       IN IF x \in Range(r) THEN r ELSE Append(r, x)

\* q in increasing order of the integer keys (keys[i] is the key of q[i]);
\* elements of equal key keep their order.
SortBy(q, keys) ==
  LET place(i) == 1 + Cardinality({j \in DOMAIN q :
                                     keys[j] < keys[i] \/ (keys[j] = keys[i] /\ j < i)})
  IN [p \in DOMAIN q |-> q[CHOOSE i \in DOMAIN q : place(i) = p]]

head(q, n) == IF n >= 0 THEN SubSeq(q, 1, IF n < Len(q) THEN n ELSE Len(q))
              ELSE SubSeq(q, 1, IF Len(q) + n > 0 THEN Len(q) + n ELSE 0)

----------------------------------------------------------------------------
(* pandas *)

\* Series.value_counts(): one row per distinct value, the rows in decreasing
\* order of count, values of equal count in the order of their first occurrence.
value_counts(q) ==
  LET rows == [i \in DOMAIN Unique(q) |->
                 [key |-> Unique(q)[i], count |-> Occurrences(q, Unique(q)[i])]]
  IN SortBy(rows, [i \in DOMAIN rows |-> 0 - rows[i].count])

\* The order of group keys: numbers by value, texts after the numbers and in
\* the order of their characters.
KeyRank(c) ==
  IF c.t = "num" THEN c.n
  ELSE 1000000 + (CASE c.s = ".0" -> 1
                    [] c.s = "70" -> 2
                    [] c.s = "85" -> 3
                    [] OTHER -> 4)

\* DataFrame.groupby(key).size().reset_index(name="count") over the key column
\* q (cells, none missing): one row per distinct key, in increasing key order.
groupby_size(q) ==
  LET rows == [i \in DOMAIN Unique(q) |->
                 [key |-> Unique(q)[i], count |-> Occurrences(q, Unique(q)[i])]]
  IN SortBy(rows, [i \in DOMAIN rows |-> KeyRank(rows[i].key)])

Column(df, name) == [i \in DOMAIN df |-> df[i][name]]

\* df.dropna(subset=[name])
dropna(df, name) == SelectRows(df, [i \in DOMAIN df |-> notna(df[i][name])])

\* df[df[name] == value]
where_eq(df, name, value) == SelectRows(df, [i \in DOMAIN df |-> df[i][name] = value])

\* df[(df[name] >= lo) & (df[name] <= hi)] over numeric cells; a comparison
\* with NaN is False.
where_between(df, name, lo, hi) ==
  SelectRows(df, [i \in DOMAIN df |-> /\ df[i][name].t = "num"
                                      /\ df[i][name].n >= lo
                                      /\ df[i][name].n <= hi])

----------------------------------------------------------------------------
(* Python values and outcomes *)

\* The outcome of a call: a value, or the exception it raised.
Return(v) == [raised |-> "", val |-> v]
Raise(e) == [raised |-> e, val |-> <<>>]

\* A parsed literal: a dict (items are <<key, value>>), a list (items are
\* <<element, None>>) or a number.
PyDict(items) == [form |-> "dict", items |-> items]
PyList(elems) == [form |-> "list", items |-> [i \in DOMAIN elems |-> <<elems[i], None>>]]
PyNum == [form |-> "num", items |-> <<>>]

\* A raw genre cell of the movie file: missing, or a text with its syntax.
GenreNaN == [t |-> "nan", syntax |-> "", items |-> <<>>]
GenreText(syntax, items) == [t |-> "str", syntax |-> syntax, items |-> items]

\* A dict literal keeps one entry per key: at the place of the key's first
\* occurrence, with the value of its last.
DictItems(items) ==
  LET keys == Unique([i \in DOMAIN items |-> items[i][1]])
      last(k) == CHOOSE i \in DOMAIN items :
                   /\ items[i][1] = k
                   /\ \A j \in DOMAIN items : items[j][1] = k => j <= i
  IN [i \in DOMAIN keys |-> <<keys[i], items[last(keys[i])][2]>>]

\* ast.literal_eval(x) of a text cell.
ast_literal_eval(x) ==
  CASE x.syntax = "dict" -> Return(PyDict(DictItems(x.items)))
    [] x.syntax = "list" -> Return([form |-> "list", items |-> x.items])
    [] x.syntax = "num" -> Return(PyNum)
    [] OTHER -> Raise("SyntaxError")

\* for e in v: the keys of a dict, the elements of a list; a number is not iterable.
Iter(v) == [i \in DOMAIN v.items |-> v.items[i][1]]
Iterable(v) == v.form \in {"dict", "list"}

\* e in v
Contains(v, e) == \E i \in DOMAIN v.items : v.items[i][1] = e

----------------------------------------------------------------------------
(* Source files.  A file is missing or holds rows.  The loaders refuse a      *)
(* missing file themselves; pd.read_csv, given the column names, reads a file  *)
(* without rows as a table without rows.                                       *)

Missing == [exists |-> FALSE, rows |-> <<>>]
File(rows) == [exists |-> TRUE, rows |-> rows]

read_csv(file) ==
  IF ~file.exists THEN Raise("FileNotFoundError")
  ELSE Return(file.rows)

\* The type pd.read_csv gives a column: when every cell present reads as a
\* number the column is numeric and holds the numbers, otherwise it keeps the
\* texts of the file.
infer_dtype(rows, name) ==
  IF \A i \in DOMAIN rows : isna(rows[i][name]) \/ to_numeric(rows[i][name]).t = "num"
  THEN [i \in DOMAIN rows |-> [rows[i] EXCEPT ![name] = to_numeric(@)]]
  ELSE rows

\* isinstance(x, str) of the genres cell of row i: a present cell is a text
\* unless every present cell of the column is a number, which pd.read_csv
\* then reads as numbers.
genres_isinstance_str(rows, i) ==
  /\ rows[i].genres.t = "str"
  /\ \E j \in DOMAIN rows : rows[j].genres.t = "str" /\ rows[j].genres.syntax # "num"

\* The first exception among the outcomes q, "" when none raised.
FirstRaised(q) ==
  IF \A i \in DOMAIN q : q[i].raised = "" THEN ""
  ELSE q[CHOOSE i \in DOMAIN q : q[i].raised # "" /\ \A j \in 1..(i - 1) : q[j].raised = ""].raised

\* merge with how="left": an appearance of an unknown movie is kept, with the
\* movie's cells missing.
merge_left(left, right) ==
  LET joined(c, m) ==
        [f \in (DOMAIN c) \ {"release_date"} |-> c[f]]
        @@ [release_date_x |-> c.release_date, release_date_y |-> m.release_date]
        @@ [f \in (DOMAIN m) \ {"wikipedia_movie_id", "release_date"} |-> m[f]]
      unknown == [f \in DOMAIN right[1] |-> IF f = "genres" THEN PyList(<<>>) ELSE NaN]
      matches(c) ==
        LET ms == SelectRows(right, [j \in DOMAIN right |->
                                      right[j].wikipedia_movie_id = c.wikipedia_movie_id])
        IN IF ms = <<>> /\ right # <<>> THEN <<joined(c, unknown)>>
           ELSE [j \in DOMAIN ms |-> joined(c, ms[j])]
      rows == Flatten([i \in DOMAIN left |-> matches(left[i])])
  IN [i \in DOMAIN rows |-> [index |-> i - 1] @@ rows[i]]

\* pd.merge(characters_df, movies_df, on="wikipedia_movie_id", how="inner"): the
\* rows of the left table in their order, each with every right row of its key;
\* the release_date both tables hold becomes release_date_x and release_date_y.
merge(left, right) ==
  LET joined(c, m) ==
        [f \in (DOMAIN c) \ {"release_date"} |-> c[f]]
        @@ [release_date_x |-> c.release_date, release_date_y |-> m.release_date]
        @@ [f \in (DOMAIN m) \ {"wikipedia_movie_id", "release_date"} |-> m[f]]
      matches(c) ==
        LET ms == SelectRows(right, [j \in DOMAIN right |->
                                      right[j].wikipedia_movie_id = c.wikipedia_movie_id])
        IN [j \in DOMAIN ms |-> joined(c, ms[j])]
      rows == Flatten([i \in DOMAIN left |-> matches(left[i])])
  IN [i \in DOMAIN rows |-> [index |-> i - 1] @@ rows[i]]

\* Series.replace({"M": "Male", "F": "Female"}), cell by cell.
replace_gender(c) ==
  IF c = Str("M") THEN Str("Male") ELSE IF c = Str("F") THEN Str("Female") ELSE c

----------------------------------------------------------------------------
(* src/src/movie_analyzer.py: construction *)

GENRE_MAPPING ==
  [c \in {"/m/07s9rl0", "/m/01z4y", "/m/02l7c8", "/m/01g6gs", "/m/02kdv5l",
          "/m/01jfsb", "/m/02hmvc", "/m/03q4nz", "/m/0lsxr", "/m/0219x_"} |->
     CASE c = "/m/07s9rl0" -> "Drama"
       [] c = "/m/01z4y" -> "Comedy"
       [] c = "/m/02l7c8" -> "Action"
       [] c = "/m/01g6gs" -> "Romance"
       [] c = "/m/02kdv5l" -> "Horror"
       [] c = "/m/01jfsb" -> "Thriller"
       [] c = "/m/02hmvc" -> "Science Fiction"
       [] c = "/m/03q4nz" -> "Adventure"
       [] c = "/m/0lsxr" -> "Mystery"
       [] c = "/m/0219x_" -> "Animation"]

\* GENRE_MAPPING.get(genre, genre)
GENRE_MAPPING_get(genre) ==
  IF genre \in DOMAIN GENRE_MAPPING THEN GENRE_MAPPING[genre] ELSE genre

load_movies(file) ==
  LET csv == read_csv(file)
      evals == [i \in DOMAIN csv.val |->
                  IF genres_isinstance_str(csv.val, i)
                  THEN ast_literal_eval(csv.val[i].genres)
                  ELSE Return(PyList(<<>>))]
      df == infer_dtype(csv.val, "release_date")
  IN IF csv.raised # "" THEN csv
     ELSE IF FirstRaised(evals) # "" THEN Raise(FirstRaised(evals))
     ELSE Return([i \in DOMAIN df |->
                    [wikipedia_movie_id |-> df[i].wikipedia_movie_id,
                     release_date |-> df[i].release_date,
                     genres |-> evals[i].val]])

load_characters(file) ==
  LET csv == read_csv(file)
  IN IF csv.raised # "" THEN csv
     ELSE Return(infer_dtype(infer_dtype(csv.val, "actor_height"), "actor_dob"))

merge_data(characters, movies) == merge(characters, movies)

clean_data(merged) ==
  [i \in DOMAIN merged |->
     [f \in (DOMAIN merged[i]) \ {"release_date_x"} |->
        IF f = "actor_gender" THEN replace_gender(merged[i][f]) ELSE merged[i][f]]]

NoCall == [op |-> "", a1 |-> None, a2 |-> None, a3 |-> None]
Call(op, a1, a2, a3) == [op |-> op, a1 |-> a1, a2 |-> a2, a3 |-> a3]

NoResult == [kind |-> "none", rows |-> <<>>, exc |-> ""]
Table(rows) == [kind |-> "table", rows |-> rows, exc |-> ""]
Raised(e) == [kind |-> "raise", rows |-> <<>>, exc |-> e]

\* MovieAnalyzer(): the tables are loaded, joined and cleaned, or the
\* exception of the first step that fails reaches the caller and no analyzer exists.
init ==
  /\ pc = "new"
  /\ variant = "src"
  /\ call' = Call("__init__", None, None, None)
  /\ LET m == load_movies(movie_file)
         c == load_characters(character_file)
     IN IF m.raised # "" \/ c.raised # ""
        THEN /\ pc' = "failed"
             /\ result' = Raised(IF m.raised # "" THEN m.raised ELSE c.raised)
             /\ UNCHANGED tables
        ELSE /\ pc' = "ready"
             /\ result' = NoResult
             /\ movies_df' = m.val
             /\ characters_df' = c.val
             /\ merged_df' = clean_data(merge_data(c.val, m.val))
  /\ UNCHANGED files

----------------------------------------------------------------------------
(* src/src/movie_analyzer.py: aggregators.  Each has an operator giving the   *)
(* outcome of the call on given tables and an action that makes the call.     *)
(* The plot flag only draws a chart of the returned rows and is left out.     *)

\* bool(x) of an argument cell
truthy(c) == \/ c.t = "str" /\ c.s # ""
             \/ c.t = "num" /\ c.n # 0

\* The genre labels movie_type counts for one movie.
movie_labels(genres) ==
  [i \in DOMAIN Iter(genres) |-> GENRE_MAPPING_get(Iter(genres)[i])]

movie_type_outcome(movies, n) ==
  IF n.t # "num" THEN Raise("ValueError")
  ELSE IF \E i \in DOMAIN movies : ~Iterable(movies[i].genres) THEN Raise("TypeError")
  ELSE Return(head(value_counts(Flatten([i \in DOMAIN movies |->
                                           movie_labels(movies[i].genres)])), n.n))

movie_type(n) ==
  /\ pc = "ready"
  /\ variant = "src"
  /\ call' = Call("movie_type", n, None, None)
  /\ LET out == movie_type_outcome(movies_df, n)
     IN result' = IF out.raised # "" THEN Raised(out.raised) ELSE Table(out.val)
  /\ UNCHANGED <<files, pc, tables>>

\* releases_coerced storing the table without the movies that have no release
\* year.
releases_coerced_dropna(movies) ==
  dropna([i \in DOMAIN movies |-> [movies[i] EXCEPT !.release_date = to_numeric(@)]],
         "release_date")

\* releases_coerced with fillna(0): a release date that does not read as a
\* number becomes year 0.
releases_coerced_fillna0(movies) ==
  [i \in DOMAIN movies |->
     [movies[i] EXCEPT !.release_date =
        IF to_numeric(@).t = "num" THEN to_numeric(@) ELSE Num(0)]]

\* movies_df with release_date made numeric, as releases stores it.
releases_coerced(movies) ==
  [i \in DOMAIN movies |-> [movies[i] EXCEPT !.release_date = to_numeric(@)]]

\* The movies releases counts.  Indexing a frame without rows by the empty
\* result of apply selects no column, and the groupby then raises KeyError.
releases_selected(movies, genre) ==
  LET df == dropna(releases_coerced(movies), "release_date")
  IN IF ~truthy(genre) THEN Return(df)
     ELSE IF df = <<>> THEN Raise("KeyError")
     ELSE IF \E i \in DOMAIN df : ~Iterable(df[i].genres) THEN Raise("TypeError")
     ELSE Return(SelectRows(df, [i \in DOMAIN df |-> Contains(df[i].genres, genre.s)]))

releases_outcome(movies, genre) ==
  LET sel == releases_selected(movies, genre)
  IN IF sel.raised # "" THEN sel
     ELSE Return(groupby_size(Column(sel.val, "release_date")))

releases(genre) ==
  /\ pc = "ready"
  /\ variant = "src"
  /\ call' = Call("releases", genre, None, None)
  /\ movies_df' = releases_coerced(movies_df)
  /\ LET out == releases_outcome(movies_df, genre)
     IN result' = IF out.raised # "" THEN Raised(out.raised) ELSE Table(out.val)
  /\ UNCHANGED <<files, pc, characters_df, merged_df>>

\* A Timestamp cell holds year * 100 + month.
Date(ym) == [t |-> "date", n |-> ym, s |-> ""]

\* The texts of the model that read as a date.
DateText ==
  [s \in {"1970-05-17", "1985-11-02", "1970"} |->
     CASE s = "1970-05-17" -> 197005
       [] s = "1985-11-02" -> 198511
       [] s = "1970" -> 197001]

\* pd.to_datetime(column, errors="coerce"), cell by cell; a number counts
\* nanoseconds from 1970-01-01.
to_datetime(c) ==
  CASE c.t = "date" -> c
    [] c.t = "str" -> IF c.s \in DOMAIN DateText THEN Date(DateText[c.s]) ELSE NaN
    [] c.t = "num" -> Date(197001)
    [] OTHER -> NaN

ages_coerced(characters) ==
  [i \in DOMAIN characters |-> [characters[i] EXCEPT !.actor_dob = to_datetime(@)]]

ages_outcome(characters, mode) ==
  LET df == dropna(ages_coerced(characters), "actor_dob")
  IN IF mode = Str("M")
     THEN Return(groupby_size([i \in DOMAIN df |-> Num(df[i].actor_dob.n % 100)]))
     ELSE Return(groupby_size([i \in DOMAIN df |-> Num(df[i].actor_dob.n \div 100)]))

ages(mode) ==
  /\ pc = "ready"
  /\ variant = "src"
  /\ call' = Call("ages", mode, None, None)
  /\ characters_df' = ages_coerced(characters_df)
  /\ result' = Table(ages_outcome(characters_df, mode).val)
  /\ UNCHANGED <<files, pc, movies_df, merged_df>>

\* The number of actors of each movie, in the order of the movie ids.
actors_per_movie(merged) ==
  LET valid_actors == dropna(merged, "actor_name")
      sizes == groupby_size([i \in DOMAIN valid_actors |->
                               Num(valid_actors[i].wikipedia_movie_id)])
  IN Column(sizes, "count")

actor_count_outcome(merged) ==
  LET actor_counts == value_counts(actors_per_movie(merged))
  IN Return(SortBy(actor_counts, Column(actor_counts, "key")))

actor_count ==
  /\ pc = "ready"
  /\ variant = "src"
  /\ call' = Call("actor_count", None, None, None)
  /\ result' = Table(actor_count_outcome(merged_df).val)
  /\ UNCHANGED <<files, pc, tables>>

actor_distributions_coerced(merged) ==
  [i \in DOMAIN merged |-> [merged[i] EXCEPT !.actor_height = to_numeric(@)]]

actor_distributions_outcome(merged, gender, min_height, max_height) ==
  LET filtered_df ==
        where_between(dropna(actor_distributions_coerced(merged), "actor_height"),
                      "actor_height", min_height.n, max_height.n)
      valid_genders == {filtered_df[i].actor_gender : i \in DOMAIN filtered_df} \ {NaN}
  IN IF gender.t # "str" \/ min_height.t # "num" \/ max_height.t # "num"
     THEN Raise("ValueError")
     ELSE IF gender.s = "All" THEN Return(filtered_df)
     ELSE IF gender \notin valid_genders THEN Raise("ValueError")
     ELSE Return(where_eq(filtered_df, "actor_gender", gender))

actor_distributions(gender, min_height, max_height) ==
  /\ pc = "ready"
  /\ variant = "src"
  /\ call' = Call("actor_distributions", gender, min_height, max_height)
  /\ merged_df' = IF gender.t # "str" \/ min_height.t # "num" \/ max_height.t # "num"
                  THEN merged_df
                  ELSE actor_distributions_coerced(merged_df)
  /\ LET out == actor_distributions_outcome(merged_df, gender, min_height, max_height)
     IN result' = IF out.raised # "" THEN Raised(out.raised) ELSE Table(out.val)
  /\ UNCHANGED <<files, pc, movies_df, characters_df>>

----------------------------------------------------------------------------
(* src/movie_analyzer.py: construction *)

NoSummary == Str("No summary available.")

\* bool(v) of a dict value
root_truthy(v) == \/ v.t = "str" /\ v.s # ""
                  \/ v.t = "num" /\ v.n # 0

\* extract_genres: the stripped non-empty values of the dict literal; a literal
\* that does not parse gives []; a literal that is no dict, or a value that is
\* no text, raises AttributeError, which is not caught.
root_extract_genres(genre_dict_str) ==
  LET lit == ast_literal_eval(genre_dict_str)
      items == lit.val.items
      kept == SelectRows(items, [i \in DOMAIN items |-> root_truthy(items[i][2])])
  IN IF lit.raised # "" THEN Return(PyList(<<>>))
     ELSE IF lit.val.form # "dict" THEN Raise("AttributeError")
     ELSE IF \E i \in DOMAIN kept : kept[i][2].t # "str" THEN Raise("AttributeError")
     ELSE Return(PyList([i \in DOMAIN kept |-> strip(kept[i][2].s)]))

\* _load_movies: with the summaries file present the merge renames the two
\* summary columns summary_x and summary_y and df["summary"] raises KeyError.
root_load_movies(file, summaries) ==
  LET csv == read_csv(file)
      evals == [i \in DOMAIN csv.val |->
                  IF genres_isinstance_str(csv.val, i)
                  THEN root_extract_genres(csv.val[i].genres)
                  ELSE Return(PyList(<<>>))]
      df == infer_dtype(csv.val, "release_date")
  IN IF csv.raised # "" THEN csv
     ELSE IF FirstRaised(evals) # "" THEN Raise(FirstRaised(evals))
     ELSE IF summaries.exists
          THEN (IF read_csv(summaries).raised # "" THEN read_csv(summaries)
                ELSE Raise("KeyError"))
     ELSE Return([i \in DOMAIN df |->
                    [wikipedia_movie_id |-> df[i].wikipedia_movie_id,
                     release_date |-> df[i].release_date,
                     genres |-> evals[i].val,
                     summary |-> NoSummary]])

root_load_characters(file) == load_characters(file)

root_merge_data(characters, movies) == merge(characters, movies)

root_clean_data(merged) ==
  [i \in DOMAIN merged |->
     [merged[i] EXCEPT !.actor_gender = replace_gender(@),
                       !.actor_height = to_numeric(@)]]

root_check_data_files ==
  movie_file.exists /\ character_file.exists /\ summary_file.exists

\* MovieAnalyzer(): when a file is missing the archive is fetched and unpacked
\* first, which fails (download) or leaves the three paths as they are.
root_init(download) ==
  /\ pc = "new"
  /\ variant = "root"
  /\ call' = Call("__init__", None, None, None)
  /\ LET m == root_load_movies(movie_file, summary_file)
         c == root_load_characters(character_file)
     IN IF ~root_check_data_files /\ download # ""
        THEN /\ pc' = "failed"
             /\ result' = Raised(download)
             /\ UNCHANGED tables
        ELSE IF m.raised # "" \/ c.raised # ""
        THEN /\ pc' = "failed"
             /\ result' = Raised(IF m.raised # "" THEN m.raised ELSE c.raised)
             /\ UNCHANGED tables
        ELSE /\ pc' = "ready"
             /\ result' = NoResult
             /\ movies_df' = m.val
             /\ characters_df' = c.val
             /\ merged_df' = root_clean_data(root_merge_data(c.val, m.val))
  /\ UNCHANGED files

----------------------------------------------------------------------------
(* src/movie_analyzer.py: aggregators *)

\* head(n) slices [:n]: None takes every row, a text is no slice bound.
root_movie_type_outcome(movies, n) ==
  LET genre_counts == value_counts(Flatten([i \in DOMAIN movies |-> Iter(movies[i].genres)]))
  IN IF n.t = "none" THEN Return(genre_counts)
     ELSE IF n.t # "num" THEN Raise("TypeError")
     ELSE Return(head(genre_counts, n.n))

root_movie_type(n) ==
  /\ pc = "ready"
  /\ variant = "root"
  /\ call' = Call("movie_type", n, None, None)
  /\ LET out == root_movie_type_outcome(movies_df, n)
     IN result' = IF out.raised # "" THEN Raised(out.raised) ELSE Table(out.val)
  /\ UNCHANGED <<files, pc, tables>>

root_releases_selected(movies, genre) ==
  LET df == [i \in DOMAIN movies |-> [movies[i] EXCEPT !.release_date = to_numeric(@)]]
      of_genre == IF truthy(genre) /\ genre # Str("All")
                  THEN SelectRows(df, [i \in DOMAIN df |->
                                         /\ df[i].genres.form = "list"
                                         /\ Contains(df[i].genres, genre.s)])
                  ELSE df
  IN dropna(of_genre, "release_date")

\* Indexing a frame without rows by the empty result of apply selects no
\* column, and dropna(subset=["release_date"]) then raises KeyError.
root_releases_outcome(movies, genre) ==
  IF movies = <<>> /\ truthy(genre) /\ genre # Str("All") THEN Raise("KeyError")
  ELSE Return(groupby_size(Column(root_releases_selected(movies, genre), "release_date")))

root_releases(genre) ==
  /\ pc = "ready"
  /\ variant = "root"
  /\ call' = Call("releases", genre, None, None)
  /\ LET out == root_releases_outcome(movies_df, genre)
     IN result' = IF out.raised # "" THEN Raised(out.raised) ELSE Table(out.val)
  /\ UNCHANGED <<files, pc, tables>>

root_actor_count_outcome(merged) ==
  LET sizes == groupby_size([i \in DOMAIN merged |-> Num(merged[i].wikipedia_movie_id)])
  IN Return(value_counts(Column(sizes, "count")))

root_actor_count ==
  /\ pc = "ready"
  /\ variant = "root"
  /\ call' = Call("actor_count", None, None, None)
  /\ result' = Table(root_actor_count_outcome(merged_df).val)
  /\ UNCHANGED <<files, pc, tables>>

\* str(x)[-2:] of a year: of the float the column holds when a birth date is
\* missing from a numeric column or did not read as a number, of the integer
\* otherwise.
LastTwo(year, float) ==
  IF float THEN ".0"
  ELSE CASE year = 1970 -> "70"
         [] year = 1985 -> "85"
         [] OTHER -> "??"

root_ages_outcome(merged, mode) ==
  LET present == dropna(merged, "actor_dob")
      numeric == [i \in DOMAIN present |-> to_numeric(present[i].actor_dob)]
      float == \/ /\ \E i \in DOMAIN merged : isna(merged[i].actor_dob)
                  /\ \A i \in DOMAIN merged : merged[i].actor_dob.t \in {"nan", "num"}
               \/ \E i \in DOMAIN numeric : isna(numeric[i])
      df == SelectRows(numeric, [i \in DOMAIN numeric |->
                                   notna(numeric[i]) /\ numeric[i].n > 1800])
  IN IF mode = Str("Y") THEN Return(groupby_size(df))
     ELSE IF mode = Str("M")
     THEN Return(groupby_size([i \in DOMAIN df |-> Str(LastTwo(df[i].n, float))]))
     ELSE Return(<<>>)

root_ages(mode) ==
  /\ pc = "ready"
  /\ variant = "root"
  /\ call' = Call("ages", mode, None, None)
  /\ result' = Table(root_ages_outcome(merged_df, mode).val)
  /\ UNCHANGED <<files, pc, tables>>

root_actor_distributions_outcome(merged, gender, min_height, max_height) ==
  LET cols == [i \in DOMAIN merged |->
                 [index |-> merged[i].index,
                  actor_name |-> merged[i].actor_name,
                  actor_gender |-> merged[i].actor_gender,
                  actor_height |-> to_numeric(merged[i].actor_height)]]
      df == dropna(dropna(dropna(cols, "actor_name"), "actor_gender"), "actor_height")
      of_gender == IF gender \in {Str("Male"), Str("Female")}
                   THEN where_eq(df, "actor_gender", gender)
                   ELSE df
  IN IF min_height.t # "num" \/ max_height.t # "num" THEN Raise("TypeError")
     ELSE Return(where_between(of_gender, "actor_height", min_height.n, max_height.n))

root_actor_distributions(gender, min_height, max_height) ==
  /\ pc = "ready"
  /\ variant = "root"
  /\ call' = Call("actor_distributions", gender, min_height, max_height)
  /\ LET out == root_actor_distributions_outcome(merged_df, gender, min_height, max_height)
     IN result' = IF out.raised # "" THEN Raised(out.raised) ELSE Table(out.val)
  /\ UNCHANGED <<files, pc, tables>>

----------------------------------------------------------------------------
(* Inputs *)

ReleaseCells == {NaN, Num(1999), Str("2000"), Str("2001-08-24")}

Drama == <<"/m/07s9rl0", Str("Drama")>>
Comedy == <<"/m/01z4y", Str("Comedy")>>
Western == <<"/m/0hfjk", Str("Western")>>
PaddedDrama == <<"/m/0drama2", Str(" Drama")>>

GenreCells ==
  {GenreNaN,
   GenreText("dict", <<Drama>>),
   GenreText("dict", <<Drama, Comedy>>),
   GenreText("dict", <<Western, Drama>>),
   GenreText("dict", <<Drama, PaddedDrama>>),
   GenreText("num", <<>>),
   GenreText("bad", <<>>)}

\* The movie files of up to k rows; the movie ids are 1, 2, ... (a primary key).
MovieFiles(k, releases_, genres_) ==
  {Missing} \cup
  UNION {{File([i \in 1..n |-> [wikipedia_movie_id |-> i,
                                release_date |-> f[i][1],
                                genres |-> f[i][2]]]) :
            f \in [1..n -> releases_ \X genres_]} : n \in 0..k}

\* The character files of up to k rows over the given cells.
CharacterFiles(k, ids, names, genders, heights, dobs) ==
  {Missing} \cup
  UNION {{File([i \in 1..n |-> [wikipedia_movie_id |-> f[i][1],
                                release_date |-> NaN,
                                actor_name |-> f[i][2],
                                actor_gender |-> f[i][3],
                                actor_height |-> f[i][4],
                                actor_dob |-> f[i][5]]]) :
            f \in [1..n -> ids \X names \X genders \X heights \X dobs]} : n \in 0..k}

SummaryFiles == {Missing, File(<<[wikipedia_movie_id |-> 1, summary |-> Str("A plot.")]>>)}

NArgs == {Num(k) : k \in 1..MaxN}
GenreArgs == {None, Str("All"), Str("Drama"), Str("Comedy"), Str("/m/07s9rl0"), Str("Noir")}
ModeArgs == {Str("Y"), Str("M"), Str("Z")}
GenderArgs == {Str("All"), Str("Male"), Str("Female"), Str("NotAGender")}
HeightArgs == {Num(160), Num(170), Num(180)}
Downloads == {"", "URLError"}

InitWith(movie_files, character_files, summary_files) ==
  /\ variant \in {"src", "root"}
  /\ movie_file \in movie_files
  /\ character_file \in character_files
  /\ summary_file \in summary_files
  /\ pc = "new"
  /\ movies_df = <<>>
  /\ characters_df = <<>>
  /\ merged_df = <<>>
  /\ call = NoCall
  /\ result = NoResult

Construct == init \/ \E download \in Downloads : root_init(download)

MovieCalls ==
  \/ \E n \in NArgs : movie_type(n)
  \/ \E n \in NArgs : root_movie_type(n)
  \/ \E genre \in GenreArgs : releases(genre)
  \/ \E genre \in GenreArgs : root_releases(genre)

CastCalls == actor_count \/ root_actor_count

AgeCalls ==
  \/ \E mode \in ModeArgs : ages(mode)
  \/ \E mode \in ModeArgs : root_ages(mode)

HeightCalls ==
  \/ \E gender \in GenderArgs, lo \in HeightArgs, hi \in HeightArgs :
       lo.n <= hi.n /\ actor_distributions(gender, lo, hi)
  \/ \E gender \in GenderArgs, lo \in HeightArgs, hi \in HeightArgs :
       lo.n <= hi.n /\ root_actor_distributions(gender, lo, hi)

OneActor ==
  [wikipedia_movie_id |-> 1, release_date |-> NaN, actor_name |-> Str("Ann"),
   actor_gender |-> Str("F"), actor_height |-> Num(160), actor_dob |-> Str("1970-05-17")]

TwoMovies ==
  File(<<[wikipedia_movie_id |-> 1, release_date |-> Num(1999),
          genres |-> GenreText("dict", <<Drama>>)],
         [wikipedia_movie_id |-> 2, release_date |-> NaN,
          genres |-> GenreText("dict", <<Drama, Comedy>>)]>>)

ThreeMovies ==
  File(TwoMovies.rows \o <<[wikipedia_movie_id |-> 3, release_date |-> Str("2000"),
                            genres |-> GenreText("dict", <<Comedy>>)]>>)

\* movie_type over every movie file of up to MaxTitles rows.
InitGenres ==
  InitWith(MovieFiles(MaxTitles, {Num(1999)}, GenreCells), {File(<<OneActor>>)}, {Missing})
NextGenres ==
  \/ Construct
  \/ \E n \in NArgs : movie_type(n)
  \/ \E n \in NArgs : root_movie_type(n)
SpecGenres == InitGenres /\ [][NextGenres]_vars

\* releases over every movie file of up to MaxMovies rows.
InitReleases ==
  InitWith(MovieFiles(MaxMovies, ReleaseCells,
                      {GenreNaN, GenreText("dict", <<Drama>>),
                       GenreText("dict", <<Drama, Comedy>>)}),
           {File(<<OneActor>>)}, {Missing})
NextReleases ==
  \/ Construct
  \/ \E genre \in GenreArgs : releases(genre)
  \/ \E genre \in GenreArgs : root_releases(genre)
SpecReleases == InitReleases /\ [][NextReleases]_vars

\* actor_count over every cast of up to MaxCast appearances.
InitCast ==
  InitWith({ThreeMovies},
           CharacterFiles(MaxCast, 1..3, {NaN, Str("Ann")}, {Str("F")}, {Num(160)}, {NaN}),
           {Missing})
NextCast == Construct \/ CastCalls
SpecCast == InitCast /\ [][NextCast]_vars

\* actor_distributions over every cast of up to MaxActors appearances.
InitActors ==
  InitWith({TwoMovies},
           CharacterFiles(MaxActors, {1}, {NaN, Str("Ann")}, {NaN, Str("M"), Str("F")},
                          {NaN, Num(160), Str("1.8"), Str("tall")}, {NaN}),
           {Missing})
NextActors == Construct \/ HeightCalls
SpecActors == InitActors /\ [][NextActors]_vars

\* ages over every cast of up to MaxBirths appearances.
InitBirths ==
  InitWith({TwoMovies},
           CharacterFiles(MaxBirths, {1, 3}, {Str("Ann")}, {Str("F")}, {Num(160)},
                          {NaN, Str("1970-05-17"), Str("1985-11-02"), Str("1970"), Str("unknown")}),
           {Missing})
NextBirths == Construct \/ AgeCalls
SpecBirths == InitBirths /\ [][NextBirths]_vars

\* Construction over every movie file of up to MaxMovies rows, with every
\* kind of genres cell: missing, a mapping, a mapping with a value that is no
\* text, a list, a number, malformed text.
DecoderCells ==
  GenreCells \cup {GenreText("dict", <<<<"/m/07s9rl0", Num(7)>>>>),
                   GenreText("list", <<<<"Drama", None>>>>)}

InitDecoder ==
  InitWith(MovieFiles(MaxMovies, {NaN}, DecoderCells), {File(<<OneActor>>)}, {Missing})
NextDecoder == Construct
SpecDecoder == InitDecoder /\ [][NextDecoder]_vars

\* Construction and the movie-level calls over every movie file of up to
\* MaxMovies rows and every cast of up to MaxActors appearances, of known and
\* unknown movies.
InitJoin ==
  InitWith(MovieFiles(MaxMovies, {NaN, Num(1999)},
                      {GenreText("dict", <<Drama>>), GenreText("dict", <<Drama, Comedy>>)}),
           CharacterFiles(MaxActors, 1..3, {Str("Ann")}, {Str("F")}, {Num(160)}, {NaN}),
           {Missing})
NextJoin ==
  \/ Construct
  \/ \E n \in NArgs : movie_type(n)
  \/ \E n \in NArgs : root_movie_type(n)
  \/ releases(None)
  \/ root_releases(None)
SpecJoin == InitJoin /\ [][NextJoin]_vars

\* Calls with arguments of the wrong type or of no use, next to valid ones.
WrongNArgs == {None, Str("ten")}
WrongGenderArgs == {Num(1), Str("NotAGender")}
WrongHeightArgs == {Str("low")}

InitArguments ==
  InitWith({TwoMovies},
           CharacterFiles(MaxActors, {1}, {Str("Ann")}, {NaN, Str("M")},
                          {Num(160), Str("tall")}, {NaN}),
           {Missing})
NextArguments ==
  \/ Construct
  \/ \E n \in NArgs \cup WrongNArgs : movie_type(n)
  \/ \E n \in NArgs \cup WrongNArgs : root_movie_type(n)
  \/ \E gender \in {Str("All"), Str("Male")} \cup WrongGenderArgs,
        lo \in {Num(160), Num(180)} \cup WrongHeightArgs,
        hi \in {Num(160), Num(180)} \cup WrongHeightArgs :
       actor_distributions(gender, lo, hi)
  \/ \E gender \in {Str("All"), Str("Male")} \cup WrongGenderArgs,
        lo \in {Num(160), Num(180)} \cup WrongHeightArgs,
        hi \in {Num(160), Num(180)} \cup WrongHeightArgs :
       root_actor_distributions(gender, lo, hi)
SpecArguments == InitArguments /\ [][NextArguments]_vars

\* Every sequence of aggregator calls, over the files of up to MaxLoaded rows
\* whose cells the calls coerce.
InitCalls ==
  InitWith(MovieFiles(MaxLoaded, {Str("2000"), Str("2001-08-24")}, {GenreText("dict", <<Drama>>)}),
           CharacterFiles(MaxLoaded, {1}, {Str("Ann")}, {Str("M")}, {Num(160), Str("tall")},
                          {Str("1970-05-17"), Str("unknown")}),
           {Missing})
NextCalls == Construct \/ MovieCalls \/ CastCalls \/ AgeCalls \/ HeightCalls
SpecCalls == InitCalls /\ [][NextCalls]_vars

\* Every operation, over the files of up to MaxRows rows.
Init ==
  InitWith(MovieFiles(MaxRows, {NaN, Str("2000")}, GenreCells),
           CharacterFiles(MaxRows, {1, 2}, {NaN, Str("Ann")}, {Str("M")},
                          {Num(160), Str("tall")}, {NaN, Str("1970-05-17")}),
           SummaryFiles)
Next == Construct \/ MovieCalls \/ CastCalls \/ AgeCalls \/ HeightCalls
Spec == Init /\ [][Next]_vars

----------------------------------------------------------------------------
(* What the claims speak of, stated on the source rows and the loaded tables  *)

Returned(op) == pc = "ready" /\ call.op = op

\* The movie of raw row r has release year y.
HasYear(r, y) ==
  \/ r.release_date = Num(y)
  \/ r.release_date.t = "str" /\ r.release_date.s \in DOMAIN NumericText
     /\ NumericText[r.release_date.s] = y

\* The years a release date of the movie file can read as.
YearsOnFile ==
  {NumericText[s] : s \in DOMAIN NumericText}
  \cup {movie_file.rows[m].release_date.n : m \in DOMAIN movie_file.rows}

HasAnyYear(r) == \E y \in YearsOnFile : HasYear(r, y)

\* The genre labels of movie m of the loaded table, in the order the analyzer
\* reads them, and as a set.
LabelList(m) ==
  IF variant = "src"
  THEN (IF Iterable(movies_df[m].genres) THEN movie_labels(movies_df[m].genres) ELSE <<>>)
  ELSE Iter(movies_df[m].genres)

GenreSet(m) == Range(LabelList(m))

AllLabels == UNION {GenreSet(m) : m \in DOMAIN movies_df}

MoviesOf(label) == {m \in DOMAIN movies_df : label \in GenreSet(m)}

Keys(rows) == {rows[i].key : i \in DOMAIN rows}

\* The count a (key, count) table gives for a key, 0 when it has no row for it.
CountAt(rows, key) ==
  Sum([i \in DOMAIN rows |-> IF rows[i].key = key THEN rows[i].count ELSE 0])

Min(a, b) == IF a <= b THEN a ELSE b

\* The appearance rows of the merged table with an actor name, of one movie.
NamedRows(id) ==
  {i \in DOMAIN merged_df : /\ merged_df[i].wikipedia_movie_id = id
                            /\ notna(merged_df[i].actor_name)}

MovieIds == {movies_df[m].wikipedia_movie_id : m \in DOMAIN movies_df}

\* The merged rows a height query asks for.
Qualifying(gender, lo, hi) ==
  {i \in DOMAIN merged_df :
     /\ to_numeric(merged_df[i].actor_height).t = "num"
     /\ to_numeric(merged_df[i].actor_height).n >= lo.n
     /\ to_numeric(merged_df[i].actor_height).n <= hi.n
     /\ (gender = Str("All") \/ merged_df[i].actor_gender = gender)}

GenderOccurs(gender) == \E i \in DOMAIN merged_df : merged_df[i].actor_gender = gender

----------------------------------------------------------------------------
(* Claims *)

\* C1: actor_distributions(gender, min_height, max_height) with gender All,
\* Male or Female and min_height <= max_height returns exactly the merged rows
\* with a height in [min_height, max_height] and, unless gender is All, of that
\* gender.  Stated for the src variant and for a gender that occurs in the
\* data: even there the call can raise instead of returning the rows.
C1_ReturnsExactlyTheQualifyingRows ==
  (/\ Returned("actor_distributions")
   /\ variant = "src"
   /\ call.a1 \in {Str("All"), Str("Male"), Str("Female")}
   /\ call.a2.n <= call.a3.n
   /\ (call.a1 = Str("All") \/ GenderOccurs(call.a1)))
  => /\ result.kind = "table"
     /\ Range(result.rows) = {merged_df[i] : i \in Qualifying(call.a1, call.a2, call.a3)}
     /\ Len(result.rows) = Cardinality(Qualifying(call.a1, call.a2, call.a3))

\* C2: with a gender other than All, actor_distributions raises exactly when
\* the gender occurs in no row of the data; when it occurs but no row of it is
\* in the height range, the call returns an empty result.
C2_RaisesExactlyOnUnknownGender ==
  (/\ Returned("actor_distributions")
   /\ call.a1.t = "str"
   /\ call.a1 # Str("All"))
  => IF GenderOccurs(call.a1)
     THEN /\ result.kind = "table"
          /\ Qualifying(call.a1, call.a2, call.a3) = {} => result.rows = <<>>
     ELSE result = Raised("ValueError")

\* C3: the count movie_type reports for a label is the number of movies whose
\* genres set holds the label.
C3_CountIsNumberOfMovies ==
  (Returned("movie_type") /\ result.kind = "table")
  => \A i \in DOMAIN result.rows :
       result.rows[i].count = Cardinality(MoviesOf(result.rows[i].key))

\* C4: for n >= 1 movie_type(n) returns min(n, D) rows, D the number of
\* distinct labels, each with a count >= 1, in non-increasing order of count,
\* and no label left out occurs more often than a label returned.
C4_TopNRows ==
  (Returned("movie_type") /\ call.a1.t = "num" /\ call.a1.n >= 1)
  => /\ result.kind = "table"
     /\ Len(result.rows) = Min(call.a1.n, Cardinality(AllLabels))
     /\ \A i \in DOMAIN result.rows : result.rows[i].count >= 1
     /\ \A i, j \in DOMAIN result.rows : i < j => result.rows[i].count >= result.rows[j].count
     /\ \A label \in AllLabels \ Keys(result.rows) : \A i \in DOMAIN result.rows :
          Sum([m \in DOMAIN movies_df |-> Occurrences(LabelList(m), label)])
            <= result.rows[i].count

\* C5: for a genre g other than All, releases(g) counts exactly the movies that
\* have g in their genres set and a release year.
C5_CountsTheMoviesOfTheGenre ==
  (/\ Returned("releases")
   /\ call.a1.t = "str"
   /\ call.a1 # Str("All")
   /\ result.kind = "table")
  => \A y \in YearsOnFile \cup {k.n : k \in Keys(result.rows)} :
       CountAt(result.rows, Num(y)) =
         Cardinality({m \in MoviesOf(call.a1.s) : HasYear(movie_file.rows[m], y)})

\* C6: releases() without a genre returns one row per distinct release year,
\* the count of a year is the number of movies released in it, the counts sum
\* to the number of movies with a release year, and a movie whose release year
\* is missing or does not read as a number is in no row.
C6_ReleasesPerYear ==
  (Returned("releases") /\ call.a1 = None)
  => /\ result.kind = "table"
     /\ \A i, j \in DOMAIN result.rows : result.rows[i].key = result.rows[j].key => i = j
     /\ Keys(result.rows) =
          {Num(y) : y \in {y \in YearsOnFile :
                             \E m \in DOMAIN movie_file.rows : HasYear(movie_file.rows[m], y)}}
     /\ \A i \in DOMAIN result.rows :
          result.rows[i].count =
            Cardinality({m \in DOMAIN movie_file.rows :
                           HasYear(movie_file.rows[m], result.rows[i].key.n)})
     /\ Sum(Column(result.rows, "count")) =
          Cardinality({m \in DOMAIN movie_file.rows : HasAnyYear(movie_file.rows[m])})

\* A movie without a readable release year and one with a year are loaded,
\* and releases() has returned.
C6_Witness ==
  /\ Returned("releases")
  /\ call.a1 = None
  /\ result.rows # <<>>
  /\ \E m \in DOMAIN movie_file.rows : movie_file.rows[m].release_date = Str("2001-08-24")

\* C7: releases("All") returns the rows of releases().
C7_AllIsNoRestriction ==
  (Returned("releases") /\ call.a1 = Str("All") /\ result.kind = "table")
  => result.rows = IF variant = "src"
                   THEN releases_outcome(movies_df, None).val
                   ELSE root_releases_outcome(movies_df, None).val

\* C8: in the rows (k, movie_count) of actor_count() the products k * movie_count
\* sum to the number of merged rows with an actor name, and movie_count is the
\* number of movies with exactly k such rows.
C8_CountsNamedActors ==
  Returned("actor_count")
  => /\ result.kind = "table"
     /\ Sum([i \in DOMAIN result.rows |-> result.rows[i].key * result.rows[i].count])
          = Cardinality({i \in DOMAIN merged_df : notna(merged_df[i].actor_name)})
     /\ \A i \in DOMAIN result.rows :
          result.rows[i].count =
            Cardinality({id \in MovieIds : Cardinality(NamedRows(id)) = result.rows[i].key})

\* C9: the rows of actor_count() are in strictly ascending order of k.
C9_AscendingActors ==
  Returned("actor_count")
  => \A i, j \in DOMAIN result.rows : i < j => result.rows[i].key < result.rows[j].key

\* C10: ages(mode) with a mode other than "Y" and "M" returns an empty result.
C10_UnknownModeIsEmpty ==
  (Returned("ages") /\ call.a1 \notin {Str("Y"), Str("M")})
  => result = Table(<<>>)

\* The appearance rows ages reads, and the year * 100 + month a birth date
\* cell stands for (0 when it is missing or does not read as a date).
AgeRows == IF variant = "src" THEN characters_df ELSE merged_df

BirthOf(c) ==
  IF c.t = "date" THEN c.n
  ELSE IF c.t = "str" /\ c.s \in DOMAIN DateText THEN DateText[c.s]
  ELSE 0

Born == {i \in DOMAIN AgeRows : BirthOf(AgeRows[i].actor_dob) # 0}

\* C11: ages("Y") counts every appearance row with a parseable birth date once
\* under the year of the date, ages("M") counts the same rows once under the
\* month (1 to 12) of the date, and rows without a parseable date are in no
\* group; both counts sum to the number of rows with a parseable birth date.
C11_CountsParseableBirths ==
  (Returned("ages") /\ call.a1 \in {Str("Y"), Str("M")})
  => /\ result.kind = "table"
     /\ Sum(Column(result.rows, "count")) = Cardinality(Born)
     /\ \A k \in Keys(result.rows) :
          /\ k.t = "num"
          /\ call.a1 = Str("M") => k.n \in 1..12
          /\ CountAt(result.rows, k) =
               Cardinality({i \in Born :
                              k.n = IF call.a1 = Str("Y")
                                    THEN BirthOf(AgeRows[i].actor_dob) \div 100
                                    ELSE BirthOf(AgeRows[i].actor_dob) % 100})

\* C12: no aggregator call changes the loaded tables: across every call made
\* on a constructed analyzer, successful or failing, the movie table, the
\* appearance table and the merged table keep every cell, value and type.
C12_CallsLeaveTablesAlone ==
  [][pc = "ready" => tables' = tables]_vars

\* The tables of an analyzer freshly constructed over the source files, and
\* the result the call gives when it is the first made on them.
FreshMovies ==
  IF variant = "src" THEN load_movies(movie_file).val
  ELSE root_load_movies(movie_file, summary_file).val

FreshCharacters == load_characters(character_file).val

FreshMerged ==
  IF variant = "src" THEN clean_data(merge_data(FreshCharacters, FreshMovies))
  ELSE root_clean_data(root_merge_data(FreshCharacters, FreshMovies))

FreshOutcome ==
  IF variant = "src"
  THEN CASE call.op = "movie_type" -> movie_type_outcome(FreshMovies, call.a1)
         [] call.op = "releases" -> releases_outcome(FreshMovies, call.a1)
         [] call.op = "actor_count" -> actor_count_outcome(FreshMerged)
         [] call.op = "ages" -> ages_outcome(FreshCharacters, call.a1)
         [] OTHER -> actor_distributions_outcome(FreshMerged, call.a1, call.a2, call.a3)
  ELSE CASE call.op = "movie_type" -> root_movie_type_outcome(FreshMovies, call.a1)
         [] call.op = "releases" -> root_releases_outcome(FreshMovies, call.a1)
         [] call.op = "actor_count" -> root_actor_count_outcome(FreshMerged)
         [] call.op = "ages" -> root_ages_outcome(FreshMerged, call.a1)
         [] OTHER -> root_actor_distributions_outcome(FreshMerged, call.a1, call.a2, call.a3)

\* C13: whatever calls were made before it, an aggregator call gives the
\* result the same call gives as the first call on a freshly constructed
\* analyzer over the same source files.
C13_ResultIgnoresHistory ==
  (pc = "ready" /\ call.op # "__init__")
  => result = IF FreshOutcome.raised # "" THEN Raised(FreshOutcome.raised)
              ELSE Table(FreshOutcome.val)

\* Earlier calls have rewritten cells of all three tables, and movie_type has
\* returned rows.
C13_Witness ==
  /\ Returned("movie_type")
  /\ result.rows # <<>>
  /\ movies_df # FreshMovies
  /\ characters_df # FreshCharacters
  /\ merged_df # FreshMerged

\* The call c is one the analyzer must refuse on the tables it holds: a
\* movie_type with a non-integer n, an actor_distributions with a gender that
\* is no text, a height bound that is no number, or a gender other than All
\* that occurs in no row of the data.
InvalidArguments(c) ==
  \/ c.op = "movie_type" /\ c.a1.t # "num"
  \/ /\ c.op = "actor_distributions"
     /\ \/ c.a1.t # "str"
        \/ c.a2.t # "num"
        \/ c.a3.t # "num"
        \/ c.a1 # Str("All") /\ ~GenderOccurs(c.a1)

\* C14: a call with invalid arguments fails with InvalidArgument (the call
\* raises) and leaves the movie, appearance and merged tables as they were.
C14_InvalidArgumentsAreRefused ==
  [][(pc = "ready" /\ InvalidArguments(call'))
       => (result'.kind = "raise" /\ tables' = tables)]_vars

\* C15: when the movie file or the character file is missing, construction
\* fails with the error of the missing file (FileNotFoundError, whose message
\* names it), no tables are built, and no aggregator call is ever made on the
\* analyzer.
C15_MissingFileFailsConstruction ==
  (pc # "new" /\ (~movie_file.exists \/ ~character_file.exists))
  => /\ pc = "failed"
     /\ result = Raised("FileNotFoundError")
     /\ tables = <<<<>>, <<>>, <<>>>>
     /\ call.op = "__init__"

\* A raw genres cell that is a well-formed mapping from codes to label texts.
WellFormed(cell) ==
  /\ cell.t = "str"
  /\ cell.syntax = "dict"
  /\ \A i \in DOMAIN cell.items : cell.items[i][2].t = "str"

\* C16: genre decoding never aborts the load: with both files present the
\* analyzer is constructed whatever the genres cells hold, the genres of every
\* movie are a collection, and the collection is empty unless the raw cell is
\* a well-formed mapping.
C16_DecodingNeverAborts ==
  (/\ pc # "new"
   /\ movie_file.exists
   /\ character_file.exists
   /\ result # Raised("URLError"))
  => /\ pc = "ready"
     /\ Len(movies_df) = Len(movie_file.rows)
     /\ \A m \in DOMAIN movies_df :
          /\ Iterable(movies_df[m].genres)
          /\ ~WellFormed(movie_file.rows[m].genres) => Iter(movies_df[m].genres) = <<>>

\* The movie ids of the movie file, and the appearance rows of the character
\* file whose movie is among them, in the order of the file.
IdsOnFile == {movie_file.rows[m].wikipedia_movie_id : m \in DOMAIN movie_file.rows}

KnownAppearances ==
  SelectRows(character_file.rows,
             [i \in DOMAIN character_file.rows |->
                character_file.rows[i].wikipedia_movie_id \in IdsOnFile])

Uncast == {m \in DOMAIN movie_file.rows :
             \A i \in DOMAIN character_file.rows :
               character_file.rows[i].wikipedia_movie_id # movie_file.rows[m].wikipedia_movie_id}

\* C17: after construction the merged table holds one row for each appearance
\* whose movie_id is in the movie table, with the cells of that movie, and no
\* other row; every movie of the file, with or without appearances, is in the
\* movie table and is counted by movie_type and by releases.
C17_MergedIsInnerJoin ==
  pc = "ready"
  => /\ Len(merged_df) = Len(KnownAppearances)
     /\ \A i \in DOMAIN merged_df :
          /\ merged_df[i].wikipedia_movie_id = KnownAppearances[i].wikipedia_movie_id
          /\ merged_df[i].actor_name = KnownAppearances[i].actor_name
          /\ \E m \in DOMAIN movies_df :
               /\ movies_df[m].wikipedia_movie_id = merged_df[i].wikipedia_movie_id
               /\ movies_df[m].genres = merged_df[i].genres
     /\ Len(movies_df) = Len(movie_file.rows)
     /\ \A m \in DOMAIN movies_df :
          movies_df[m].wikipedia_movie_id = movie_file.rows[m].wikipedia_movie_id
     /\ call.op = "movie_type"
          => \A i \in DOMAIN result.rows :
               result.rows[i].count =
                 Cardinality({m \in DOMAIN movie_file.rows : result.rows[i].key \in GenreSet(m)})
     /\ call.op = "releases"
          => Sum(Column(result.rows, "count")) =
               Cardinality({m \in DOMAIN movie_file.rows : HasAnyYear(movie_file.rows[m])})

\* An appearance of an unknown movie and one of a known movie are on file, a
\* movie with a release year has no appearance, and releases has counted it.
C17_Witness ==
  /\ Returned("releases")
  /\ merged_df # <<>>
  /\ Len(merged_df) < Len(character_file.rows)
  /\ \E m \in Uncast : HasAnyYear(movie_file.rows[m])
  /\ result.rows # <<>>

\* The summary the summaries file holds for a movie id, the sentinel when the
\* file is missing or has no row for the id.
SummaryOf(id) ==
  IF \E i \in DOMAIN summary_file.rows : summary_file.rows[i].wikipedia_movie_id = id
  THEN summary_file.rows[CHOOSE i \in DOMAIN summary_file.rows :
                           summary_file.rows[i].wikipedia_movie_id = id].summary
  ELSE NoSummary

\* C18: whether or not the summaries file is present, loading the movie table
\* that loads without it succeeds, keeps the number of movie rows, and gives
\* every movie one summary: the text of the summaries file for its id, the
\* sentinel otherwise.
C18_EveryMovieHasItsSummary ==
  (/\ variant = "root"
   /\ pc # "new"
   /\ root_load_movies(movie_file, Missing).raised = ""
   /\ character_file.exists
   /\ result # Raised("URLError"))
  => /\ pc = "ready"
     /\ Len(movies_df) = Len(movie_file.rows)
     /\ \A m \in DOMAIN movies_df :
          movies_df[m].summary = SummaryOf(movies_df[m].wikipedia_movie_id)

\* C19: movie_type and releases agree on the genre labels: for a label that
\* movie_type reports, the counts releases(label) returns sum to the number of
\* movies movie_type counts under the label that have a release year.
C19_LabelsOfMovieTypeSelectReleases ==
  (/\ Returned("releases")
   /\ call.a1.t = "str"
   /\ call.a1.s \in AllLabels
   /\ result.kind = "table")
  => Sum(Column(result.rows, "count")) =
       Cardinality({m \in MoviesOf(call.a1.s) : HasAnyYear(movie_file.rows[m])})

====
